---- MODULE Spec2Model ----
(***************************************************************************)
(* A model of ratatui-statusbar (src/src/lib.rs): the StatusBar builder    *)
(* (new, flex, spacing, section) and its rendering into a cell buffer      *)
(* (Widget::render / WidgetRef::render_ref).                               *)
(*                                                                         *)
(* Text is kept as runs: a Line is a sequence of runs, each one glyph of   *)
(* display width 1 repeated n times in one style, so that a line wider     *)
(* than u16::MAX is a value of the model like any other.                   *)
(***************************************************************************)
EXTENDS Integers, Sequences, FiniteSets, TLC

\* ---------------------------------------------------------------- bounds

MaxSections == 2
MaxSpacing == 2
MaxRenders == 2
BufW == 16
BufH == 2

\* u16::MAX, the largest width u16::try_from accepts (lib.rs:170, 183).
U16Max == 65535
\* The spacing new() sets (lib.rs:118).
NewSpacing == 1
\* The spacing #[derive(Default)] sets (lib.rs:104).
DefaultSpacing == 0

\* ------------------------------------------------------------------ text

NoColor == "None"

Run(sym, n, fg) == [sym |-> sym, n |-> n, fg |-> fg]

\* Line::width(): the number of columns the line occupies.
RECURSIVE LineWidth(_)
LineWidth(line) ==
  IF line = <<>> THEN 0 ELSE Head(line).n + LineWidth(Tail(line))

\* The run that covers column k (0-based) of the line; k < LineWidth(line).
RECURSIVE RunAt(_, _)
RunAt(line, k) ==
  IF k < Head(line).n THEN Head(line) ELSE RunAt(Tail(line), k - Head(line).n)

\* StatusBarSection: the optional separators are <<>> (None) or <<run>> (Some).
Section(pre, content, post) ==
  [pre_separator |-> pre, content |-> content, post_separator |-> post]

\* StatusBarSection::default(): no separators, an empty line.
DefaultSection == Section(<<>>, <<>>, <<>>)

\* From<&str> / From<Span> / From<Line>: the text becomes the content.
FromLine(line) == Section(<<>>, line, <<>>)

Hello == <<Run("h", 1, NoColor), Run("e", 1, NoColor), Run("l", 2, NoColor),
           Run("o", 1, NoColor)>>
World == <<Run("w", 1, NoColor), Run("o", 1, NoColor), Run("r", 1, NoColor),
           Run("l", 1, NoColor), Run("d", 1, NoColor)>>
\* A line one column wider than a u16 can say.
Huge == <<Run("x", U16Max + 1, NoColor)>>
\* StatusBarSection::default().pre_separator("<").content("ab").post_separator(">")
Decorated ==
  Section(<<Run("<", 1, NoColor)>>,
          <<Run("a", 1, "Red"), Run("b", 1, NoColor)>>,
          <<Run(">", 1, NoColor)>>)

\* The values the section() calls of the model pass.
SectionValues ==
  {DefaultSection, FromLine(Hello), FromLine(World), FromLine(Huge), Decorated}

\* ratatui::layout::Flex
Flexes == {"Legacy", "Start", "End", "Center", "SpaceBetween", "SpaceAround"}
\* Flex::default()
DefaultFlex == "Start"

\* ---------------------------------------------------------------- buffer

Rect(x, y, w, h) == [x |-> x, y |-> y, width |-> w, height |-> h]
Left(r) == r.x
Right(r) == r.x + r.width
Top(r) == r.y
Bottom(r) == r.y + r.height
\* Mutant: only a zero width counts as empty.
IsEmptyWidthOnly(r) == r.width = 0
IsEmpty(r) == r.width = 0 \/ r.height = 0

BufArea == Rect(0, 0, BufW, BufH)
Positions == (0 .. BufW - 1) \X (0 .. BufH - 1)
InRect(p, r) == /\ Left(r) <= p[1] /\ p[1] < Right(r)
               /\ Top(r) <= p[2] /\ p[2] < Bottom(r)

BlankCell == [symbol |-> " ", fg |-> "Reset"]

\* The regions the host asks the bar to paint, all inside the buffer.
AreaWidths == {0, 1, 3, 7, 12, 15, BufW}
Areas ==
  {Rect(0, 0, w, 1) : w \in {w \in AreaWidths : w <= BufW}}
  \cup {Rect(1, BufH - 1, w, 1) : w \in {w \in AreaWidths : 1 + w <= BufW}}
  \cup {Rect(0, 0, 7, 0), Rect(1, 0, 12, BufH)}

\* ---------------------------------------------------------------- layout

Min(a, b) == IF a < b THEN a ELSE b
Max(a, b) == IF a > b THEN a ELSE b

RECURSIVE Sum(_)
Sum(s) == IF s = <<>> THEN 0 ELSE Head(s) + Sum(Tail(s))

\* The sum of the first k entries of s.
SumTo(s, k) == Sum(SubSeq(s, 1, k))

\* Layout::split is ratatui's constraint solver (ratatui 0.26), which the
\* widget calls and does not implement. Where the region is too small the
\* Length constraints, all of one strength, cannot all be met. Under every
\* flex but Legacy the solver also asks, weakly, that the segments be of one
\* size (ALL_SEGMENT_GROW): they shrink evenly. Legacy asks no such thing and
\* leaves the difference to the last segments, as it leaves them the excess.
PolicyOf(flex) == IF flex = "Legacy" THEN "First" ELSE "Even"

RECURSIVE GreedyFirst(_, _)
GreedyFirst(caps, total) ==
  IF caps = <<>> THEN <<>>
  ELSE LET s == Min(Head(caps), total)
       IN  <<s>> \o GreedyFirst(Tail(caps), total - s)

RECURSIVE WaterFill(_, _, _)
WaterFill(s, caps, left) ==
  LET open == {i \in 1 .. Len(caps) : s[i] < caps[i]} IN
  IF left = 0 \/ open = {} THEN s
  ELSE LET low == {i \in open : \A j \in open : s[i] <= s[j]}
           pick == CHOOSE k \in low : \A j \in low : k <= j
       IN  WaterFill([j \in 1 .. Len(caps) |-> IF j = pick THEN s[j] + 1 ELSE s[j]],
                     caps, left - 1)

\* How `total` columns are shared among items that want caps[i] columns each.
Shares(policy, caps, total) ==
  IF policy = "First" THEN GreedyFirst(caps, total)
  ELSE WaterFill([i \in 1 .. Len(caps) |-> 0], caps, total)

\* f64::round of num/den for num >= 0: halves round away from zero.
RoundDiv(num, den) == (2 * num + den) \div (2 * den)

\* The solver works in hundredths of a column (FLOAT_PRECISION_MULTIPLIER);
\* a solved value is rounded, divided by 100 and rounded again.
Pos(num, den) == RoundDiv(RoundDiv(100 * num, den), 100)

\* The spacers between the sections have a size of their own only under
\* these; SpaceBetween and SpaceAround ignore spacing.
UsesSpacing(flex) == flex \in {"Legacy", "Start", "End", "Center"}

\* Mutant: the sections are packed from the left edge with no spacers.
FittedNoSpacers(area, widths, flex, spacing, free) ==
  [i \in 1 .. Len(widths) |->
     Rect(area.x + SumTo(widths, i - 1), area.y, widths[i], area.height)]

\* The region holds every section at its Length and every spacer: free >= 0
\* columns are left over and the flex says where they go. Positions are
\* fractions num/den of a column.
Fitted(area, widths, flex, spacing, free) ==
  LET N == Len(widths)
      den == CASE flex = "Center" -> 2
               [] flex = "SpaceBetween" -> Max(N - 1, 1)
               [] flex = "SpaceAround" -> N + 1
               [] OTHER -> 1
      \* den times the spacer columns left of section i
      lead(i) == CASE flex \in {"Legacy", "Start"} -> (i - 1) * spacing
                   [] flex = "End" -> free + (i - 1) * spacing
                   [] flex = "Center" -> free + 2 * (i - 1) * spacing
                   [] flex = "SpaceBetween" -> (i - 1) * free
                   [] flex = "SpaceAround" -> i * free
      start(i) == Pos(den * (area.x + SumTo(widths, i - 1)) + lead(i), den)
      \* Legacy, and SpaceBetween with one section, have no spacer after the
      \* last section to take the excess: the last section is stretched.
      stretched(i) == i = N /\ (flex = "Legacy" \/ (flex = "SpaceBetween" /\ N = 1))
      end(i) == IF stretched(i) THEN Right(area)
                ELSE Pos(den * (area.x + SumTo(widths, i)) + lead(i), den)
  IN  [i \in 1 .. N |-> Rect(start(i), area.y, end(i) - start(i), area.height)]

\* Mutant: a region that is too small does not shrink the sections.
SqueezedUnclamped(area, widths, flex, spacing) ==
  [i \in 1 .. Len(widths) |->
     Rect(area.x + SumTo(widths, i - 1) + (i - 1) * spacing, area.y,
          widths[i], area.height)]

\* The region is too small. Spacers (strength SPACER_SIZE_EQ) outweigh the
\* Length constraints (LENGTH_SIZE_EQ): the spacers keep their size while
\* they fit, the sections share what is left, and no free space remains for
\* the spacers that grow.
Squeezed(area, widths, flex, spacing) ==
  LET N == Len(widths)
      policy == PolicyOf(flex)
      wanted == [i \in 1 .. N - 1 |-> IF UsesSpacing(flex) THEN spacing ELSE 0]
      gaps == IF Sum(wanted) <= area.width THEN wanted
              ELSE Shares(policy, wanted, area.width)
      sizes == Shares(policy, widths, area.width - Sum(gaps))
      start(i) == area.x + SumTo(sizes, i - 1) + SumTo(gaps, i - 1)
  IN  [i \in 1 .. N |-> Rect(start(i), area.y, sizes[i], area.height)]

\* Layout::horizontal(Length(w) for each section).flex(flex).spacing(spacing)
\*   .split(area): one Rect per section.
LayoutSplit(area, widths, flex, spacing) ==
  LET N == Len(widths)
      free == area.width - Sum(widths)
              - (IF UsesSpacing(flex) THEN spacing * (N - 1) ELSE 0)
  IN  IF N = 0 THEN <<>>
      ELSE IF free >= 0 THEN Fitted(area, widths, flex, spacing, free)
      ELSE Squeezed(area, widths, flex, spacing)

\* ---------------------------------------------------------------- render

\* Mutant: the line is inserted, pushing the rest of the row to the right,
\* where set_line overwrites.
SetLineInserting(b, x, y, line, width) ==
  LET n == Min(width, LineWidth(line))
      stop == Min(x + n, Right(BufArea))
  IN  [p \in Positions |->
        IF p[2] = y /\ x <= p[1] /\ p[1] < stop
        THEN [symbol |-> RunAt(line, p[1] - x).sym, fg |-> b[p].fg]
        ELSE IF p[2] = y /\ p[1] >= stop THEN b[<<p[1] - n, y>>]
        ELSE b[p]]

\* Buffer::set_line(x, y, line, width): the line's glyphs from column x on,
\* at most `width` columns and never past the buffer's right edge. A run
\* without a colour leaves the cell's colour as it is (Style::patch).
SetLine(b, x, y, line, width) ==
  LET stop == Min(x + Min(width, LineWidth(line)), Right(BufArea))
  IN  [p \in Positions |->
        IF p[2] = y /\ x <= p[1] /\ p[1] < stop
        THEN LET r == RunAt(line, p[1] - x)
             IN  [symbol |-> r.sym,
                  fg |-> IF r.fg = NoColor THEN b[p].fg ELSE r.fg]
        ELSE b[p]]

\* The loop of render_ref: sections i .. zipped with their rects, in order.
RECURSIVE WriteSections(_, _, _, _)
WriteSections(b, secs, rects, i) ==
  IF i > Len(secs) \/ i > Len(rects) THEN b
  ELSE WriteSections(
         SetLine(b, Left(rects[i]), Top(rects[i]), secs[i].content,
                 LineWidth(secs[i].content)),
         secs, rects, i + 1)

\* u16::try_from(s.content.width()).unwrap() panics on a width above u16::MAX.
FitsU16(w) == w <= U16Max

\* The width each section asks of the layout: Constraint::Length(content width).
Constraints(secs) == [i \in 1 .. Len(secs) |-> LineWidth(secs[i].content)]

\* render_ref: what it leaves in the buffer, the rects it used, and whether
\* it panicked (the buffer is then as it was: the unwrap comes before any
\* write).
RenderRef(secs, fl, sp, area, b) ==
  IF IsEmpty(area)
  THEN [panic |-> FALSE, buf |-> b, rects |-> <<>>]
  ELSE IF \E i \in 1 .. Len(secs) : ~FitsU16(LineWidth(secs[i].content))
  THEN [panic |-> TRUE, buf |-> b, rects |-> <<>>]
  ELSE LET areas == LayoutSplit(area, Constraints(secs), fl, sp)
       IN  [panic |-> FALSE, buf |-> WriteSections(b, secs, areas, 1),
            rects |-> areas]

\* ----------------------------------------------------------------- state

VARIABLES
  sections,   \* StatusBar.sections
  flex,       \* StatusBar.flex
  spacing,    \* StatusBar.spacing
  held,       \* the caller owns a StatusBar (the builder moves self)
  result,     \* what the last builder call returned
  buf,        \* the caller's Buffer
  renders,    \* renders into buf since the host last reset it
  area,       \* the region of the last render
  rects,      \* the rects the last render got from the layout
  before,     \* buf as the caller supplied it to the last render
  first,      \* <<>>, or <<what the bar as it is drew into a reset buffer>>
  written,    \* per section, the value of the last successful section() call
  panicked,   \* a panic unwound the program
  op          \* the last operation

vars == <<sections, flex, spacing, held, result, buf, renders,
          area, rects, before, first, written, panicked, op>>

frame == <<buf, renders, area, rects, before, panicked>>

NoResult == [tag |-> "None", index |-> 0]
Ok == [tag |-> "Ok", index |-> 0]
\* StatusBarError::IndexOutOfBounds(index)
IndexOutOfBounds(index) == [tag |-> "IndexOutOfBounds", index |-> index]

NoArea == Rect(0, 0, 0, 0)

\* What the host's buffer holds before the bar is drawn: a blank top row,
\* and below it rows that another widget has painted.
DirtyCell == [symbol |-> "#", fg |-> "Blue"]
HostBuffer == [p \in Positions |-> IF p[2] = 0 THEN BlankCell ELSE DirtyCell]

Init ==
  /\ sections = <<>>
  /\ flex = DefaultFlex
  /\ spacing = DefaultSpacing
  /\ held = FALSE
  /\ result = NoResult
  /\ buf = HostBuffer
  /\ renders = 0
  /\ area = NoArea
  /\ rects = <<>>
  /\ before = buf
  /\ first = <<>>
  /\ written = <<>>
  /\ panicked = FALSE
  /\ op = "init"

\* The host configures a bar before it draws a frame with it.
Building == ~panicked /\ renders = 0

\* StatusBar::new(nsections)
New(nsections) ==
  /\ Building
  /\ sections' = [i \in 1 .. nsections |-> DefaultSection]
  /\ flex' = DefaultFlex
  /\ spacing' = NewSpacing
  /\ held' = TRUE
  /\ result' = NoResult
  /\ first' = <<>>
  /\ written' = [i \in 1 .. nsections |-> DefaultSection]
  /\ op' = "new"
  /\ UNCHANGED frame

\* StatusBar::default(), from #[derive(Default)]
DefaultBar ==
  /\ Building
  /\ sections' = <<>>
  /\ flex' = DefaultFlex
  /\ spacing' = DefaultSpacing
  /\ held' = TRUE
  /\ result' = NoResult
  /\ first' = <<>>
  /\ written' = <<>>
  /\ op' = "default"
  /\ UNCHANGED frame

\* StatusBar::flex(self, flex)
SetFlex(f) ==
  /\ Building /\ held
  /\ flex' = f
  /\ result' = Ok
  /\ first' = <<>>
  /\ op' = "flex"
  /\ UNCHANGED <<sections, spacing, held, written, frame>>

\* StatusBar::spacing(self, spacing)
SetSpacing(s) ==
  /\ Building /\ held
  /\ spacing' = s
  /\ result' = Ok
  /\ first' = <<>>
  /\ op' = "spacing"
  /\ UNCHANGED <<sections, flex, held, written, frame>>

\* Mutant: the bound is off by one.
InBoundsInclusive(secs, index) == index <= Len(secs)

\* self.sections.get_mut(index): is there a section at the 0-based index.
InBounds(secs, index) == index < Len(secs)

\* Mutant: the 0-based index is used as a 1-based one.
AssignOneBased(secs, index, x) ==
  [j \in 1 .. Len(secs) |-> IF j = index THEN x ELSE secs[j]]

\* *s = section.into()
Assign(secs, index, x) == [secs EXCEPT ![index + 1] = x]

\* StatusBar::section(self, index, section): Ok(self) with the section
\* replaced, or Err(IndexOutOfBounds(index)), and self is dropped.
SetSection(index, x) ==
  /\ Building /\ held
  /\ IF InBounds(sections, index)
     THEN /\ sections' = Assign(sections, index, x)
          /\ written' = [written EXCEPT ![index + 1] = x]
          /\ result' = Ok
          /\ held' = TRUE
     ELSE /\ result' = IndexOutOfBounds(index)
          /\ held' = FALSE
          /\ UNCHANGED <<sections, written>>
  /\ first' = <<>>
  /\ op' = "section"
  /\ UNCHANGED <<flex, spacing, frame>>

\* WidgetRef::render_ref(&self, area, buf), and Widget::render, which calls
\* it. A configured bar has its place on the screen: the host paints the
\* same region until it reconfigures the bar.
Render(a) ==
  /\ ~panicked /\ held /\ renders < MaxRenders
  /\ IF first = <<>> THEN TRUE ELSE a = first[1].area
  /\ LET r == RenderRef(sections, flex, spacing, a, buf) IN
       /\ buf' = r.buf
       /\ rects' = r.rects
       /\ panicked' = r.panic
       /\ first' = IF renders = 0 /\ first = <<>>
                   THEN <<[area |-> a, out |-> r.buf]>> ELSE first
  /\ before' = buf
  /\ area' = a
  /\ renders' = renders + 1
  /\ op' = "render"
  /\ UNCHANGED <<sections, flex, spacing, held, result, written>>

\* The host resets its buffer for the next frame (Terminal::draw).
Reset ==
  /\ ~panicked /\ renders > 0
  /\ buf' = HostBuffer
  /\ before' = HostBuffer
  /\ renders' = 0
  /\ area' = NoArea
  /\ rects' = <<>>
  /\ op' = "reset"
  /\ UNCHANGED <<sections, flex, spacing, held, result, first, written,
                 panicked>>

Next ==
  \/ \E n \in 0 .. MaxSections : New(n)
  \/ DefaultBar
  \/ \E f \in Flexes : SetFlex(f)
  \/ \E s \in 0 .. MaxSpacing : SetSpacing(s)
  \/ \E i \in 0 .. MaxSections, x \in SectionValues : SetSection(i, x)
  \/ \E a \in Areas : Render(a)
  \/ Reset

Spec == Init /\ [][Next]_vars

\* ---------------------------------------------------------------- claims

Rendered == op = "render" /\ ~panicked
Widths == Constraints(sections)
N == Len(sections)

\* The cells of section i's sub-rectangle: the layout's rect, one row high.
InSlot(p, i) ==
  /\ p[2] = Top(rects[i])
  /\ Left(rects[i]) <= p[1] /\ p[1] < Right(rects[i])

\* The symbols of row y from column x on, w of them.
RowSymbols(b, x, y, w) == [k \in 1 .. w |-> b[<<x + k - 1, y>>].symbol]

\* C1: section(index, x) with index >= the number of sections returns
\* Err(IndexOutOfBounds(index)), without a panic and without an Ok, and
\* leaves every section, the flex and the spacing as they were.
C1_OutOfBoundsReported ==
  [][op' = "section" =>
       \A i \in 0 .. MaxSections, x \in SectionValues :
         (i >= Len(sections) /\ SetSection(i, x)) =>
           /\ result' = IndexOutOfBounds(i)
           /\ ~panicked'
           /\ sections' = sections /\ flex' = flex /\ spacing' = spacing]_vars

C1_Witness ==
  /\ op = "section" /\ result = IndexOutOfBounds(1)
  /\ Len(sections) = 1 /\ sections[1] # DefaultSection

\* C2 (as claimed): a render changes only cells inside the sub-rectangles the
\* layout assigned to the sections; every other cell keeps the value the
\* caller supplied.
C2_WritesOnlyInsideSlots ==
  Rendered =>
    \A p \in Positions :
      buf[p] # before[p] => \E i \in 1 .. Len(rects) : InSlot(p, i)

\* C3 (as claimed): a render changes no cell outside the region it was asked
\* to paint.
C3_WritesOnlyInsideRegion ==
  Rendered => \A p \in Positions : ~InRect(p, area) => buf[p] = before[p]

\* C4: under Flex::Start with spacing s, when the widths and the spacers fit
\* the region, section i's whole content is on the region's top row from
\* column left + sum over j < i of (w_j + s), and every other cell is as the
\* caller supplied it; new(2) with "hello" and "world" in a blank row of
\* width 15 reads "hello world    ".
C4_StartPacksLeft ==
  LET x(i) == Left(area) + SumTo(Widths, i - 1) + (i - 1) * spacing
      covered(p) == /\ p[2] = Top(area)
                    /\ \E i \in 1 .. N : x(i) <= p[1] /\ p[1] < x(i) + Widths[i]
  IN
  /\ (/\ Rendered /\ ~IsEmpty(area) /\ flex = "Start" /\ N > 0
      /\ Sum(Widths) + spacing * (N - 1) <= area.width)
     => /\ \A i \in 1 .. N : \A k \in 0 .. Widths[i] - 1 :
             buf[<<x(i) + k, Top(area)>>].symbol
               = RunAt(sections[i].content, k).sym
        /\ \A p \in Positions : ~covered(p) => buf[p] = before[p]
  /\ (/\ Rendered /\ sections = <<FromLine(Hello), FromLine(World)>>
      /\ flex = DefaultFlex /\ spacing = NewSpacing
      /\ area = Rect(0, 0, 15, 1) /\ before = HostBuffer)
     => RowSymbols(buf, 0, 0, 15)
          = <<"h", "e", "l", "l", "o", " ", "w", "o", "r", "l", "d",
              " ", " ", " ", " ">>

C4_Witness ==
  /\ Rendered /\ sections = <<FromLine(Hello), FromLine(World)>>
  /\ flex = "Start" /\ spacing = 1
  /\ area = Rect(0, 0, 15, 1) /\ before = HostBuffer
  /\ buf[<<6, 0>>].symbol = "w"

\* C5 (as claimed): a section's pre_separator is written immediately before
\* its content and its post_separator immediately after, and the width asked
\* of the layout is that of pre_separator + content + post_separator. Stated
\* where the bar fits its region under Flex::Start, so that each section
\* gets the width that was asked for.
C5_SeparatorsRendered ==
  LET full(i) == sections[i].pre_separator \o sections[i].content
                   \o sections[i].post_separator
      asked == [i \in 1 .. N |-> LineWidth(full(i))]
  IN  (/\ Rendered /\ ~IsEmpty(area) /\ flex = "Start" /\ N > 0
       /\ Sum(asked) + spacing * (N - 1) <= area.width)
      => \A i \in 1 .. N :
           /\ rects[i].width = asked[i]
           /\ \A k \in 0 .. asked[i] - 1 :
                buf[<<Left(rects[i]) + k, Top(area)>>].symbol
                  = RunAt(full(i), k).sym

\* C6: a bar has the sections new(n) gave it, each the value of the last
\* successful section(i, .) or the default; a successful section(i, x) sets
\* section i to x and changes no other section, nor the flex or the spacing.
C6_SectionsAsWritten ==
  /\ [](sections = written)
  /\ [][op' = "new" =>
          \A n \in 0 .. MaxSections : New(n) =>
            /\ Len(sections') = n
            /\ \A i \in 1 .. n : sections'[i] = DefaultSection]_vars
  /\ [][op' \in {"flex", "spacing", "section"} => Len(sections') = Len(sections)]_vars
  /\ [][op' = "section" =>
          \A i \in 0 .. MaxSections, x \in SectionValues :
            (i < Len(sections) /\ SetSection(i, x)) =>
              /\ result' = Ok
              /\ sections'[i + 1] = x
              /\ \A j \in 1 .. Len(sections) :
                   j # i + 1 => sections'[j] = sections[j]
              /\ flex' = flex /\ spacing' = spacing]_vars

C6_Witness ==
  /\ op = "section" /\ result = Ok /\ held
  /\ Len(sections) = 2
  /\ sections[1] = DefaultSection /\ sections[2] = FromLine(World)
  /\ flex = "Center" /\ spacing = 2

\* C7: a render into a region of zero width or zero height, or of a bar with
\* no sections, changes no cell and does not panic.
C7_EmptyRendersNothing ==
  (op = "render" /\ (area.width = 0 \/ area.height = 0 \/ N = 0))
    => (buf = before /\ ~panicked)

C7_Witness ==
  /\ op = "render" /\ area = Rect(0, 0, 7, 0)
  /\ N = 2 /\ sections[1] = FromLine(Huge)

\* C8: for every flex, spacing and widths, fitting the region or not, the
\* rects the render uses lie inside the region, do not overlap, and have
\* non-decreasing lefts in section order.
C8_SlotsDisjointOrdered ==
  (Rendered /\ ~IsEmpty(area)) =>
    /\ Len(rects) = N
    /\ \A i \in 1 .. Len(rects) :
         /\ Left(area) <= Left(rects[i]) /\ Left(rects[i]) <= Right(rects[i])
         /\ Right(rects[i]) <= Right(area)
         /\ Top(rects[i]) = Top(area) /\ Bottom(rects[i]) = Bottom(area)
    /\ \A i, j \in 1 .. Len(rects) :
         i < j => /\ Right(rects[i]) <= Left(rects[j])
                  /\ Left(rects[i]) <= Left(rects[j])

C8_Witness ==
  /\ Rendered /\ N = 2 /\ flex = "SpaceAround"
  /\ Sum(Widths) > area.width /\ area.width > 1 /\ Len(rects) = 2
  /\ rects[1].width > 0 /\ rects[2].width > 0

\* C9: a render leaves the bar as it is; the bar drawn again into a buffer
\* reset the same way gives the same cells; and a second render into the
\* buffer just rendered changes no cell.
C9_RenderIdempotent ==
  [][op' = "render" =>
       /\ <<sections, flex, spacing, held>>' = <<sections, flex, spacing, held>>
       /\ (renders = 0 /\ first # <<>>) => buf' = first[1].out
       /\ (renders > 0 /\ area' = area) => buf' = buf]_vars

C9_Witness ==
  /\ op = "render" /\ renders = 2 /\ ~IsEmpty(area)
  /\ N = 2 /\ Sum(Widths) > area.width
  /\ buf # HostBuffer /\ buf = before

\* C10 (as claimed): no render panics.
C10_RenderNeverPanics == ~panicked

====
